---- MODULE Spec2Model ----
(***************************************************************************)
(* kodik-bot: the Redis job queue and the worker pool that drains it, the  *)
(* admin-escalation table (admin_pending:<msg_id>), and the group-chat     *)
(* buffer with its periodic scan.                                          *)
(*                                                                         *)
(* Granularity: one step per store or transport command a coroutine        *)
(* awaits.  A redis-py pipeline is MULTI/EXEC and is one step.  TTLs are    *)
(* counted in days (72 h = 3, 24 h = 1); DayPasses lets one day pass.      *)
(***************************************************************************)
EXTENDS Integers, Sequences, FiniteSets, TLC

\* ------------------------------------------------------------- bounds
NumWorkers == 2        \* worker loops per pool (config NUM_WORKERS)
MaxJobs == 2           \* jobs pushed by producers other than handle_admin_reply
MaxHandles == 2        \* escalations: messages the bot posts to the admin group
MaxEscalations == 1    \* escalations where one user turn is followed
MaxReplies == 2        \* admin replies received
MaxMsgId == 4          \* group messages delivered, new or again
MaxTicks == 2          \* runs of the group scan
GROUP_BUFFER_MAX == 3  \* redis_store.py:79 sets 200; a short list stands in
BATCH_SIZE == 2        \* group.py:19 sets 20; a short batch stands in
MaxCalls == 3          \* direct calls of set_admin_pending
MaxResets == 2         \* /restart commands

\* ---------------------------------------------------- program constants
ADMIN_PENDING_TTL == 3 \* days: 60 * 60 * 72 seconds
GROUP_SEEN_TTL == 1    \* days: 60 * 60 * 24 seconds
GROUP_BUFFER_TTL == 1  \* days: 60 * 60 * 24 seconds

Workers == 1..NumWorkers
\* the loops a second call of start() creates
Respawned == (NumWorkers + 1)..(2 * NumWorkers)
Loops == Workers \cup Respawned
Users == {1, 2}
Chats == {-1, -2}            \* group chats (not the admin group)
Handles == 1..MaxHandles     \* message ids in the admin group
AdminHandlers == {"a1", "a2"}
GroupHandlers == {"g1", "g2"}
\* update handlers that look a thread up at the same time
Callers == {"u1", "u2"}
UntrackedMsg == MaxHandles + 1  \* an admin-group message that is no escalation
NoTTL == 0 - 1               \* Redis TTL of a key without expiry

VARIABLES
    \* Redis
    queue,          \* list job_queue, head first
    pending,        \* hash admin_pending:<h>, NoRow when the key is absent
    pendingTTL,     \* its remaining TTL
    group_buffer,   \* list group_buffer:<chat>
    bufferTTL,
    group_seen,     \* set group_seen:<chat>
    seenTTL,
    group_chats,    \* set group_chats
    \* SQL
    user_sessions,  \* user_id -> thread_id
    messages,       \* table messages
    escalations,    \* table escalations
    \* Telegram
    adminPosted,    \* number of messages the bot posted to the admin group
    outbox,         \* messages delivered to user and group chats
    \* WorkerPool
    pool,           \* "new" | "running" | "stopped"
    wpc, wjob, wctx,
    tasks,          \* self._tasks: the loops stop() will cancel
    \* a caller of set_admin_pending
    ppc, pctx, nCalls,
    \* callers of get_or_create_thread_id and reset_thread_id
    upc, uctx, nTokens,
    \* handle_admin_reply invocations
    apc, amsg, adata,
    \* collect_group_message invocations
    gpc, gmsg,
    \* _scan_and_reply
    spc, sctx,
    \* environment counters and history
    nJobs, nReplies, nTicks, nMsgs, nDups,
    returned,       \* job key -> number of times dequeue_job returned it
    wlog,           \* the warnings and exceptions each worker loop logged
    consumed,       \* the rows get_and_delete_admin_pending returned, with the reply each was for
    registered,     \* handle -> the row ask_human registered
    pushed,         \* chat -> every payload group_buffer_push appended, in order
    popped,         \* chat -> the batches group_buffer_pop_batch returned in this scan
    glog            \* what happened to the group keys, and in the current scan

redisVars == <<queue, pending, pendingTTL, group_buffer, bufferTTL, group_seen,
               seenTTL, group_chats>>
sqlVars == <<user_sessions, messages, escalations>>
tgVars == <<adminPosted, outbox>>
workerVars == <<pool, wpc, wjob, wctx>>
adminVars == <<apc, amsg, adata>>
groupVars == <<gpc, gmsg>>
schedVars == <<spc, sctx>>
envVars == <<nJobs, nReplies, nTicks, nMsgs, nDups>>
histVars == <<returned, wlog, consumed, registered, pushed, popped, glog>>
callVars == <<ppc, pctx, nCalls>>
lookupVars == <<upc, uctx, nTokens>>
lateVars == <<tasks, callVars, lookupVars>>
vars == <<redisVars, sqlVars, tgVars, workerVars, adminVars, groupVars,
          schedVars, envVars, histVars, lateVars>>

\* ----------------------------------------------------------- encodings
\* json.dumps / json.loads of a dict of ints and strings
json_dumps(x) == <<"json", x>>
json_loads(s) == s[2]
\* str(int) / int(str)
str(n) == <<"str", n>>
int(s) == s[2]

NoJob == [type |-> "none"]
NoRow == [thread_id |-> <<>>, user_chat_id |-> <<>>, user_id |-> <<>>, question |-> <<>>]
NoMsg == <<"none">>

\* ------------------------------------------------------------ database
\* _new_thread_id: a fresh token per call
_new_thread_id(user_id, fresh) == <<"user", user_id, fresh>>

NoThread == <<"user", 0, 0>>

\* get_or_create_thread_id: the row after the call
get_or_create_row(sessions, user_id) ==
    IF sessions[user_id] = NoThread
      THEN [sessions EXCEPT ![user_id] = _new_thread_id(user_id, 1)]
      ELSE sessions

get_or_create_thread_id(sessions, user_id) ==
    get_or_create_row(sessions, user_id)[user_id]

\* ---------------------------------------------------------- job queue
\* faulty variant: the entry goes to the head of the list (LPUSH)
rpush_head(list, item) == <<item>> \o list

\* RPUSH: the entry is appended at the tail, whatever the length of the list
rpush(list, item) == Append(list, item)

enqueue_new_message(q, user_id, chat_id, thread_id, text) ==
    rpush(q, json_dumps([type |-> "new", user_id |-> user_id, chat_id |-> chat_id,
                         thread_id |-> thread_id, text |-> text]))

enqueue_resume(q, thread_id, user_chat_id, human_reply) ==
    rpush(q, json_dumps([type |-> "resume", thread_id |-> thread_id,
                         user_chat_id |-> user_chat_id, human_reply |-> human_reply]))

\* faulty variant: the job is addressed to another chat than the row's
enqueue_admin_reply_elsewhere(q, thread_id, user_chat_id, user_id, admin_reply_text) ==
    rpush(q, json_dumps([type |-> "admin_reply", thread_id |-> thread_id,
                         chat_id |-> 0 - user_chat_id, user_id |-> user_id,
                         admin_reply |-> admin_reply_text]))

enqueue_admin_reply(q, thread_id, user_chat_id, user_id, admin_reply_text) ==
    rpush(q, json_dumps([type |-> "admin_reply", thread_id |-> thread_id,
                         chat_id |-> user_chat_id, user_id |-> user_id,
                         admin_reply |-> admin_reply_text]))

\* faulty variant: the entry is read and left in the list
blpop_rest_keep(q) == q

\* BLPOP: the list after the pop
blpop_rest(q) == Tail(q)

\* faulty variant: the entry parsed is not the one BLPOP removed
dequeue_job_tail(q) == json_loads(q[Len(q)])

\* dequeue_job on a non-empty list: the parsed head
dequeue_job(q) == json_loads(Head(q))

\* The text that identifies a job: every message and reply has its own
JobKey(job) ==
    IF job.type = "new" THEN job.text
    ELSE IF job.type = "admin_reply" THEN job.admin_reply
    ELSE job.human_reply

NewText(n) == <<"msg", n>>
ResumeText(n) == <<"resume", n>>
ReplyText(n) == <<"reply", n>>
JobKeys == {NewText(n) : n \in 1..MaxJobs} \cup {ResumeText(n) : n \in 1..MaxJobs}
             \cup {ReplyText(n) : n \in 1..MaxReplies}

\* ------------------------------------------------------------- Init
IdleCtx == [final |-> NoMsg, asked |-> FALSE, h |-> 0]
NoTarget == [message_id |-> 0, user_id |-> 0, text |-> NoMsg]
IdleScan == [chat_ids |-> <<>>, raw_items |-> <<>>, total |-> 0, batch |-> <<>>,
             target |-> NoTarget]
NoLog == [raced |-> {}, lapsed |-> {}, dropped |-> {}, trimmed |-> {},
          bug_ids |-> [c \in Chats |-> <<>>], replies |-> [c \in Chats |-> <<>>]]
NoGroupMsg == [chat |-> 0, id |-> 0]
NoCall == [h |-> 0, thread_id |-> NoThread, user_chat_id |-> 0, user_id |-> 0,
           question |-> NoMsg, before |-> NoRow, ttl_before |-> NoTTL]
NoLookup == [user_id |-> 0, thread_id |-> NoThread, insert |-> FALSE]
NoAdminMsg == [reply_to |-> 0, text |-> NoMsg]

Init ==
    /\ queue = <<>>
    /\ pending = [h \in Handles |-> NoRow]
    /\ pendingTTL = [h \in Handles |-> NoTTL]
    /\ group_buffer = [c \in Chats |-> <<>>]
    /\ bufferTTL = [c \in Chats |-> NoTTL]
    /\ group_seen = [c \in Chats |-> {}]
    /\ seenTTL = [c \in Chats |-> NoTTL]
    /\ group_chats = {}
    /\ user_sessions = [u \in Users |-> NoThread]
    /\ messages = {}
    /\ escalations = [h \in Handles |-> "none"]
    /\ adminPosted = 0
    /\ outbox = {}
    /\ pool = "new"
    /\ wpc = [w \in Loops |-> "off"]
    /\ wjob = [w \in Loops |-> NoJob]
    /\ wctx = [w \in Loops |-> IdleCtx]
    /\ tasks = {}
    /\ ppc = "idle" /\ pctx = NoCall /\ nCalls = 0
    /\ upc = [c \in Callers |-> "idle"]
    /\ uctx = [c \in Callers |-> NoLookup]
    /\ nTokens = 1
    /\ apc = [a \in AdminHandlers |-> "idle"]
    /\ amsg = [a \in AdminHandlers |-> NoAdminMsg]
    /\ adata = [a \in AdminHandlers |-> NoRow]
    /\ gpc = [g \in GroupHandlers |-> "idle"]
    /\ gmsg = [g \in GroupHandlers |-> NoGroupMsg]
    /\ spc = "idle"
    /\ sctx = IdleScan
    /\ nJobs = 0 /\ nReplies = 0 /\ nTicks = 0
    /\ nMsgs = [c \in Chats |-> 0] /\ nDups = 0
    /\ returned = [k \in JobKeys |-> 0]
    /\ wlog = {}
    /\ consumed = {}
    /\ registered = [h \in Handles |-> NoRow]
    /\ pushed = [c \in Chats |-> <<>>]
    /\ popped = [c \in Chats |-> <<>>]
    /\ glog = NoLog

\* ------------------------------------------------------------ producers
\* bot/handlers.py handle_user_message: look the thread up, push a "new" job
handle_user_message(u) ==
    /\ nJobs < MaxJobs
    /\ nJobs' = nJobs + 1
    /\ user_sessions' = get_or_create_row(user_sessions, u)
    /\ queue' = enqueue_new_message(queue, u, u,
                                    get_or_create_thread_id(user_sessions, u),
                                    NewText(nJobs + 1))
    /\ UNCHANGED <<pending, pendingTTL, group_buffer, bufferTTL, group_seen, seenTTL,
                   group_chats, messages, escalations, tgVars, workerVars, adminVars,
                   groupVars, schedVars, nReplies, nTicks, nMsgs, nDups, histVars,
                   lateVars>>

\* a caller of redis_store.enqueue_resume
push_resume(u) ==
    /\ nJobs < MaxJobs
    /\ user_sessions[u] # NoThread
    /\ nJobs' = nJobs + 1
    /\ queue' = enqueue_resume(queue, user_sessions[u], u, ResumeText(nJobs + 1))
    /\ UNCHANGED <<pending, pendingTTL, group_buffer, bufferTTL, group_seen, seenTTL,
                   group_chats, sqlVars, tgVars, workerVars, adminVars, groupVars,
                   schedVars, nReplies, nTicks, nMsgs, nDups, histVars, lateVars>>

\* ----------------------------------------------------------- WorkerPool
HandlerPcs == {"ainvoke", "ask_hset", "ask_expire", "ask_db", "persist", "send",
               "ar_send"}

\* WorkerPool.start, lines 26-29: num_workers new loops; self._tasks is
\* assigned the new list, whatever it held
create_tasks(loops) ==
    /\ tasks' = loops
    /\ wpc' = [w \in Loops |-> IF w \in loops THEN "dequeue" ELSE wpc[w]]

\* the first call of WorkerPool.start (bot/main.py line 76)
start ==
    /\ pool = "new"
    /\ pool' = "running"
    /\ create_tasks(Workers)
    /\ UNCHANGED <<redisVars, sqlVars, tgVars, wjob, wctx, adminVars, groupVars,
                   schedVars, envVars, histVars, callVars, lookupVars>>

\* a further call of WorkerPool.start, on a pool that was started before
start_again ==
    /\ pool \in {"running", "stopped"}
    /\ \A w \in Respawned : wpc[w] = "off"
    /\ pool' = "running"
    /\ create_tasks(Respawned)
    /\ UNCHANGED <<redisVars, sqlVars, tgVars, wjob, wctx, adminVars, groupVars,
                   schedVars, envVars, histVars, callVars, lookupVars>>

\* WorkerPool.stop, lines 33-36: task.cancel() raises CancelledError in every
\* loop of self._tasks at the await it is suspended on; the loop logs and
\* breaks, gather returns
cancel(pcs, loops) ==
    [w \in Loops |-> IF w \in loops THEN "ended" ELSE pcs[w]]

\* WorkerPool.stop
stop ==
    /\ pool = "running"
    /\ pool' = "stopped"
    /\ wpc' = cancel(wpc, tasks)
    /\ tasks' = {}
    /\ UNCHANGED <<redisVars, sqlVars, tgVars, wjob, wctx, adminVars, groupVars,
                   schedVars, envVars, histVars, callVars, lookupVars>>

\* faulty variant: every job is handed to a handler, whatever its type
Dispatch_any(job) == "ainvoke"

\* the pc a dequeued job sends the loop to
Dispatch(job) ==
    IF job.type \in {"new", "admin_reply"} THEN "ainvoke" ELSE "dequeue"

\* faulty variant: the loop polls again while its handler is running
worker_dequeue_early(w) ==
    /\ wpc[w] \in {"dequeue"} \cup HandlerPcs
    /\ queue # <<>>
    /\ LET job == dequeue_job(queue) IN
         /\ queue' = blpop_rest(queue)
         /\ returned' = [returned EXCEPT ![JobKey(job)] = @ + 1]
         /\ wpc' = [wpc EXCEPT ![w] = Dispatch(job)]
         /\ wjob' = [wjob EXCEPT ![w] = IF Dispatch(job) = "dequeue" THEN NoJob ELSE job]
         /\ wlog' = IF Dispatch(job) = "dequeue"
                      THEN wlog \cup {[w |-> w, key |-> JobKey(job), ev |-> "unknown"]}
                      ELSE wlog
    /\ wctx' = [wctx EXCEPT ![w] = IdleCtx]
    /\ UNCHANGED <<pending, pendingTTL, group_buffer, bufferTTL, group_seen, seenTTL,
                   group_chats, sqlVars, tgVars, pool, adminVars, groupVars, schedVars,
                   envVars, consumed, registered, pushed, popped, glog, lateVars>>

\* _worker_loop, lines 134-144: BLPOP returned an entry; dispatch on its type
worker_dequeue(w) ==
    /\ wpc[w] = "dequeue"
    /\ queue # <<>>
    /\ LET job == dequeue_job(queue) IN
         /\ queue' = blpop_rest(queue)
         /\ returned' = [returned EXCEPT ![JobKey(job)] = @ + 1]
         /\ wpc' = [wpc EXCEPT ![w] = Dispatch(job)]
         /\ wjob' = [wjob EXCEPT ![w] = IF Dispatch(job) = "dequeue" THEN NoJob ELSE job]
         /\ wlog' = IF Dispatch(job) = "dequeue"
                      THEN wlog \cup {[w |-> w, key |-> JobKey(job), ev |-> "unknown"]}
                      ELSE wlog
    /\ wctx' = [wctx EXCEPT ![w] = IdleCtx]
    /\ UNCHANGED <<pending, pendingTTL, group_buffer, bufferTTL, group_seen, seenTTL,
                   group_chats, sqlVars, tgVars, pool, adminVars, groupVars, schedVars,
                   envVars, consumed, registered, pushed, popped, glog, lateVars>>

\* what the agent answers: to a user message, or relaying an admin's reply
AgentAnswer(job) ==
    IF job.type = "new" THEN <<"answer", job.text>> ELSE <<"relay", job.admin_reply>>

\* graph.ainvoke returns; final_ai_message is the last AIMessage without tool
\* calls, or None
agent_returns(w, has_final) ==
    /\ wpc[w] = "ainvoke"
    /\ wctx' = [wctx EXCEPT ![w].final = IF has_final THEN AgentAnswer(wjob[w]) ELSE NoMsg]
    /\ wpc' = [wpc EXCEPT ![w] = IF wjob[w].type = "new" THEN "persist" ELSE "ar_send"]
    /\ UNCHANGED <<redisVars, sqlVars, tgVars, pool, wjob, adminVars, groupVars,
                   schedVars, envVars, histVars, lateVars>>

\* _handle_new, lines 71-79: the exchange is written to the messages table
handle_new_persist(w) ==
    /\ wpc[w] = "persist"
    /\ messages' = messages \cup {[user_id |-> wjob[w].user_id, chat_id |-> wjob[w].chat_id,
                                   thread_id |-> wjob[w].thread_id,
                                   user_text |-> wjob[w].text,
                                   ai_response |-> wctx[w].final]}
    /\ wpc' = [wpc EXCEPT ![w] = "send"]
    /\ UNCHANGED <<redisVars, user_sessions, escalations, tgVars, pool, wjob, wctx,
                   adminVars, groupVars, schedVars, envVars, histVars, lateVars>>

Sent(chat, body, reply_to) == [chat |-> chat, body |-> body, reply_to |-> reply_to]

\* _handle_new, lines 81-90
handle_new_send(w) ==
    /\ wpc[w] = "send"
    /\ outbox' = IF wctx[w].final # NoMsg
                   THEN outbox \cup {Sent(wjob[w].chat_id, wctx[w].final, 0)}
                   ELSE outbox
    /\ wpc' = [wpc EXCEPT ![w] = "dequeue"]
    /\ wjob' = [wjob EXCEPT ![w] = NoJob]
    /\ wctx' = [wctx EXCEPT ![w] = IdleCtx]
    /\ UNCHANGED <<redisVars, sqlVars, adminPosted, pool, adminVars, groupVars,
                   schedVars, envVars, histVars, lateVars>>

\* _handle_admin_reply, lines 124-127: the relay, marked as a support answer
handle_admin_reply_send(w) ==
    /\ wpc[w] = "ar_send"
    /\ outbox' = IF wctx[w].final # NoMsg
                   THEN outbox \cup {Sent(wjob[w].chat_id, <<"support", wctx[w].final>>, 0)}
                   ELSE outbox
    /\ wpc' = [wpc EXCEPT ![w] = "dequeue"]
    /\ wjob' = [wjob EXCEPT ![w] = NoJob]
    /\ wctx' = [wctx EXCEPT ![w] = IdleCtx]
    /\ UNCHANGED <<redisVars, sqlVars, adminPosted, pool, adminVars, groupVars,
                   schedVars, envVars, histVars, lateVars>>

\* faulty variant: the loop puts the failed job back on the queue
worker_exception_requeue(w) ==
    /\ wpc[w] \in HandlerPcs
    /\ queue' = rpush(queue, json_dumps(wjob[w]))
    /\ wlog' = wlog \cup {[w |-> w, key |-> JobKey(wjob[w]), ev |-> "exception"]}
    /\ wpc' = [wpc EXCEPT ![w] = "dequeue"]
    /\ wjob' = [wjob EXCEPT ![w] = NoJob]
    /\ wctx' = [wctx EXCEPT ![w] = IdleCtx]
    /\ UNCHANGED <<pending, pendingTTL, group_buffer, bufferTTL, group_seen, seenTTL,
                   group_chats, sqlVars, tgVars, pool, adminVars, groupVars, schedVars,
                   envVars, returned, consumed, registered, pushed, popped, glog,
                   lateVars>>

\* _worker_loop, lines 149-150: a handler raised at the call it was awaiting
\* (the agent, the database, Redis or Telegram); logged, the job is dropped
worker_exception(w) ==
    /\ wpc[w] \in HandlerPcs
    /\ wlog' = wlog \cup {[w |-> w, key |-> JobKey(wjob[w]), ev |-> "exception"]}
    /\ wpc' = [wpc EXCEPT ![w] = "dequeue"]
    /\ wjob' = [wjob EXCEPT ![w] = NoJob]
    /\ wctx' = [wctx EXCEPT ![w] = IdleCtx]
    /\ UNCHANGED <<redisVars, sqlVars, tgVars, pool, adminVars, groupVars, schedVars,
                   envVars, returned, consumed, registered, pushed, popped, glog,
                   lateVars>>

\* ------------------------------------------------------ admin_pending
\* faulty variant: fields that exist are kept (HSETNX per field)
hset_nx(p, h, row) == IF p[h] = NoRow THEN [p EXCEPT ![h] = row] ELSE p

\* HSET key mapping: every field of the mapping is set
hset(p, h, row) == [p EXCEPT ![h] = row]

\* EXPIRE: sets the TTL of a key that exists, does nothing otherwise
expire(ttl, exists, k, seconds) == IF exists THEN [ttl EXCEPT ![k] = seconds] ELSE ttl

hgetall(p, h) == IF h \in DOMAIN p THEN p[h] ELSE NoRow

\* DEL
delete(p, h, none) == IF h \in DOMAIN p THEN [p EXCEPT ![h] = none] ELSE p

\* set_admin_pending, lines 162-170: the HSET
set_admin_pending_hset(p, admin_msg_id, thread_id, user_chat_id, user_id, question) ==
    hset(p, admin_msg_id, [thread_id |-> thread_id, user_chat_id |-> str(user_chat_id),
                           user_id |-> str(user_id), question |-> question])

\* set_admin_pending, line 171: the EXPIRE
set_admin_pending_expire(ttl, p, admin_msg_id) ==
    expire(ttl, p[admin_msg_id] # NoRow, admin_msg_id, ADMIN_PENDING_TTL)

\* faulty variant: the oldest pending row is read, whatever message the
\* reply was made to
get_admin_pending_oldest(p, admin_msg_id) ==
    IF \E h \in DOMAIN p : p[h] # NoRow
      THEN p[CHOOSE h \in DOMAIN p : p[h] # NoRow /\ \A g \in DOMAIN p : p[g] # NoRow => h <= g]
      ELSE NoRow

\* get_and_delete_admin_pending, line 184: what the call reads
get_admin_pending(p, admin_msg_id) == hgetall(p, admin_msg_id)

\* get_and_delete_admin_pending, line 187: the DEL that follows a non-empty read
delete_admin_pending(p, admin_msg_id) == delete(p, admin_msg_id, NoRow)

\* -------------------------------------------------- agent/tools.ask_human
Question(job) == <<"q", JobKey(job)>>

\* the agent calls ask_human; lines 52-56 post the question to the admin group
ask_human_send(w) ==
    /\ wpc[w] = "ainvoke"
    /\ ~wctx[w].asked
    /\ adminPosted < MaxHandles
    /\ adminPosted' = adminPosted + 1
    /\ wctx' = [wctx EXCEPT ![w].asked = TRUE, ![w].h = adminPosted + 1]
    /\ wpc' = [wpc EXCEPT ![w] = "ask_hset"]
    /\ UNCHANGED <<redisVars, sqlVars, outbox, pool, wjob, adminVars, groupVars,
                   schedVars, envVars, histVars, lateVars>>

\* lines 57-63, first command of set_admin_pending
ask_human_hset(w) ==
    /\ wpc[w] = "ask_hset"
    /\ pending' = set_admin_pending_hset(pending, wctx[w].h, wjob[w].thread_id,
                                         wjob[w].chat_id, wjob[w].user_id,
                                         Question(wjob[w]))
    /\ registered' = [registered EXCEPT ![wctx[w].h] = pending'[wctx[w].h]]
    /\ wpc' = [wpc EXCEPT ![w] = "ask_expire"]
    /\ UNCHANGED <<queue, pendingTTL, group_buffer, bufferTTL, group_seen, seenTTL,
                   group_chats, sqlVars, tgVars, pool, wjob, wctx, adminVars, groupVars,
                   schedVars, envVars, returned, wlog, consumed, pushed, popped, glog,
                   lateVars>>

\* second command of set_admin_pending
ask_human_expire(w) ==
    /\ wpc[w] = "ask_expire"
    /\ pendingTTL' = set_admin_pending_expire(pendingTTL, pending, wctx[w].h)
    /\ wpc' = [wpc EXCEPT ![w] = "ask_db"]
    /\ UNCHANGED <<queue, pending, group_buffer, bufferTTL, group_seen, seenTTL,
                   group_chats, sqlVars, tgVars, pool, wjob, wctx, adminVars, groupVars,
                   schedVars, envVars, histVars, lateVars>>

\* lines 67-74: the Escalation row; the tool returns and the agent goes on
ask_human_record(w) ==
    /\ wpc[w] = "ask_db"
    /\ escalations' = [escalations EXCEPT ![wctx[w].h] = "pending"]
    /\ wpc' = [wpc EXCEPT ![w] = "ainvoke"]
    /\ UNCHANGED <<redisVars, user_sessions, messages, tgVars, pool, wjob, wctx,
                   adminVars, groupVars, schedVars, envVars, histVars, lateVars>>

\* faulty variant: a reply that matches no pending row is answered in the group
admin_reply_get_answered(a, m) ==
    /\ apc[a] = "idle"
    /\ nReplies < MaxReplies
    /\ m \in (1..adminPosted) \cup {UntrackedMsg}
    /\ nReplies' = nReplies + 1
    /\ LET data == get_admin_pending(pending, m) IN
         IF data = NoRow
           THEN /\ outbox' = outbox \cup {Sent(0, <<"no pending escalation">>, m)}
                /\ UNCHANGED adminVars
           ELSE /\ apc' = [apc EXCEPT ![a] = "delete"]
                /\ amsg' = [amsg EXCEPT ![a] = [reply_to |-> m,
                                                text |-> ReplyText(nReplies + 1)]]
                /\ adata' = [adata EXCEPT ![a] = data]
                /\ UNCHANGED outbox
    /\ UNCHANGED <<redisVars, sqlVars, adminPosted, workerVars, groupVars, schedVars,
                   nJobs, nTicks, nMsgs, nDups, histVars, lateVars>>

\* --------------------------------------------- bot/admin.handle_admin_reply
\* an admin replies to message m of the admin group; lines 76-84: the handler
\* reads the pending row and returns when there is none
admin_reply_get(a, m) ==
    /\ apc[a] = "idle"
    /\ nReplies < MaxReplies
    /\ m \in (1..adminPosted) \cup {UntrackedMsg}
    /\ nReplies' = nReplies + 1
    /\ LET data == get_admin_pending(pending, m) IN
         IF data = NoRow
           THEN UNCHANGED adminVars
           ELSE /\ apc' = [apc EXCEPT ![a] = "delete"]
                /\ amsg' = [amsg EXCEPT ![a] = [reply_to |-> m,
                                                text |-> ReplyText(nReplies + 1)]]
                /\ adata' = [adata EXCEPT ![a] = data]
    /\ UNCHANGED <<redisVars, sqlVars, tgVars, workerVars, groupVars, schedVars,
                   nJobs, nTicks, nMsgs, nDups, histVars, lateVars>>

\* get_and_delete_admin_pending deletes the key and returns the row it read
admin_reply_delete(a) ==
    /\ apc[a] = "delete"
    /\ pending' = delete_admin_pending(pending, amsg[a].reply_to)
    /\ pendingTTL' = delete(pendingTTL, amsg[a].reply_to, NoTTL)
    /\ consumed' = consumed \cup {[h |-> amsg[a].reply_to, text |-> amsg[a].text,
                                    row |-> adata[a]]}
    /\ apc' = [apc EXCEPT ![a] = "enqueue"]
    /\ UNCHANGED <<queue, group_buffer, bufferTTL, group_seen, seenTTL, group_chats,
                   sqlVars, tgVars, workerVars, amsg, adata, groupVars, schedVars,
                   envVars, returned, wlog, registered, pushed, popped, glog, lateVars>>

\* lines 86-95: the row's ids parsed, the admin_reply job pushed
admin_reply_enqueue(a) ==
    /\ apc[a] = "enqueue"
    /\ queue' = enqueue_admin_reply(queue, adata[a].thread_id, int(adata[a].user_chat_id),
                                    int(adata[a].user_id), amsg[a].text)
    /\ apc' = [apc EXCEPT ![a] = "resolve"]
    /\ UNCHANGED <<pending, pendingTTL, group_buffer, bufferTTL, group_seen, seenTTL,
                   group_chats, sqlVars, tgVars, workerVars, amsg, adata, groupVars,
                   schedVars, envVars, histVars, lateVars>>

\* lines 97-110: the Escalation row is marked resolved, the admin gets a receipt
admin_reply_resolve(a) ==
    /\ apc[a] = "resolve"
    /\ escalations' = [escalations EXCEPT ![amsg[a].reply_to] =
                          IF @ = "none" THEN @ ELSE "resolved"]
    /\ apc' = [apc EXCEPT ![a] = "idle"]
    /\ amsg' = [amsg EXCEPT ![a] = NoAdminMsg]
    /\ adata' = [adata EXCEPT ![a] = NoRow]
    /\ UNCHANGED <<redisVars, user_sessions, messages, tgVars, workerVars, groupVars,
                   schedVars, envVars, histVars, lateVars>>

\* --------------------------------------------------- group buffer (Redis)
Min(a, b) == IF a < b THEN a ELSE b
Max(a, b) == IF a > b THEN a ELSE b

\* a Redis list index: negative counts from the tail
lindex(list, i) == IF i < 0 THEN Len(list) + i ELSE i

\* LRANGE key first last: 0-based, inclusive, out-of-range ends are clipped
lrange(list, first, last) ==
    SubSeq(list, Max(lindex(list, first), 0) + 1,
                 Min(lindex(list, last), Len(list) - 1) + 1)

\* LTRIM key first last: the list keeps that range
ltrim(list, first, last) == lrange(list, first, last)

GroupUser(m) == 1 + (m % 2)
GroupText(c, m) == <<"text", c, m>>

\* group_buffer_push, line 92
group_payload(message_id, user_id, text) ==
    json_dumps([message_id |-> message_id, user_id |-> user_id, text |-> text])

\* faulty variant: the trim keeps the head of the list
group_buffer_push_head(list, message_id, user_id, text) ==
    ltrim(rpush(list, group_payload(message_id, user_id, text)),
          0, GROUP_BUFFER_MAX - 1)

\* group_buffer_push, lines 94-95: RPUSH, then LTRIM to the cap
group_buffer_push(list, message_id, user_id, text) ==
    ltrim(rpush(list, group_payload(message_id, user_id, text)),
          0 - GROUP_BUFFER_MAX, 0 - 1)

\* faulty variant: nothing is ever reported as seen
group_seen_check_never(seen, message_id) == FALSE

\* group_seen_check: SISMEMBER
group_seen_check(seen, message_id) == message_id \in seen

\* group_get_chat_ids: the registry's members as ints
group_get_chat_ids(members) == {int(m) : m \in members}

\* a list of the elements of S in some order
Orders(S) == {o \in [1..Cardinality(S) -> S] : \A i, j \in DOMAIN o : o[i] = o[j] => i = j}

\* group_buffer_pop_batch, line 119
parse_items(raw_items) == [i \in DOMAIN raw_items |-> json_loads(raw_items[i])]

Ids(batch) == {batch[i].message_id : i \in DOMAIN batch}

\* everything but the group keys, the group handlers, the scan and the outbox
restVars == <<queue, pending, pendingTTL, sqlVars, adminPosted, workerVars, adminVars,
              nJobs, nReplies, returned, wlog, consumed, registered>>

\* ------------------------------------------ bot/group.collect_group_message
\* Telegram delivers message m of chat c (again, when m is not new); line 155:
\* the handler returns when the id is in the seen set
collect_check(g, c, m) ==
    /\ gpc[g] = "idle"
    /\ m \in 1..Min(nMsgs[c] + 1, MaxMsgId)
    /\ nMsgs[-1] + nMsgs[-2] + nDups < MaxMsgId
    /\ IF m > nMsgs[c]
         THEN nMsgs' = [nMsgs EXCEPT ![c] = m] /\ UNCHANGED nDups
         ELSE nDups' = nDups + 1 /\ UNCHANGED nMsgs
    /\ IF group_seen_check(group_seen[c], m)
         THEN UNCHANGED groupVars
         ELSE /\ gpc' = [gpc EXCEPT ![g] = "sadd"]
              /\ gmsg' = [gmsg EXCEPT ![g] = [chat |-> c, id |-> m]]
    /\ glog' = [glog EXCEPT
                  !.dropped = IF group_seen_check(group_seen[c], m)
                                THEN @ \cup {<<c, m>>} ELSE @,
                  !.raced = IF \E g2 \in GroupHandlers : gmsg[g2] = [chat |-> c, id |-> m]
                              THEN @ \cup {<<c, m>>} ELSE @]
    /\ UNCHANGED <<restVars, group_buffer, bufferTTL, group_seen, seenTTL, group_chats,
                   outbox, schedVars, nTicks, pushed, popped, lateVars>>

\* group_seen_add, line 133: SADD
collect_sadd(g) ==
    /\ gpc[g] = "sadd"
    /\ group_seen' = [group_seen EXCEPT ![gmsg[g].chat] = @ \cup {gmsg[g].id}]
    /\ gpc' = [gpc EXCEPT ![g] = "expire"]
    /\ UNCHANGED <<restVars, group_buffer, bufferTTL, seenTTL, group_chats, outbox, gmsg,
                   schedVars, nTicks, nMsgs, nDups, pushed, popped, glog, lateVars>>

\* group_seen_add, line 134: EXPIRE
collect_expire(g) ==
    /\ gpc[g] = "expire"
    /\ seenTTL' = expire(seenTTL, group_seen[gmsg[g].chat] # {}, gmsg[g].chat,
                         GROUP_SEEN_TTL)
    /\ gpc' = [gpc EXCEPT ![g] = "push"]
    /\ UNCHANGED <<restVars, group_buffer, bufferTTL, group_seen, group_chats, outbox,
                   gmsg, schedVars, nTicks, nMsgs, nDups, pushed, popped, glog, lateVars>>

\* group_buffer_push: RPUSH, LTRIM, EXPIRE and SADD in one pipeline
collect_push(g) ==
    /\ gpc[g] = "push"
    /\ LET c == gmsg[g].chat
           m == gmsg[g].id
           list == group_buffer_push(group_buffer[c], m, GroupUser(m), GroupText(c, m))
       IN /\ group_buffer' = [group_buffer EXCEPT ![c] = list]
          /\ bufferTTL' = expire(bufferTTL, list # <<>>, c, GROUP_BUFFER_TTL)
          /\ group_chats' = group_chats \cup {str(c)}
          /\ pushed' = [pushed EXCEPT ![c] = Append(@, group_payload(m, GroupUser(m), GroupText(c, m)))]
    /\ gpc' = [gpc EXCEPT ![g] = "idle"]
    /\ gmsg' = [gmsg EXCEPT ![g] = NoGroupMsg]
    /\ UNCHANGED <<restVars, group_seen, seenTTL, outbox, schedVars, nTicks, nMsgs,
                   nDups, popped, glog, lateVars>>

\* ------------------------------------------------ bot/group._scan_and_reply
StrayId == MaxMsgId + 1      \* a message id that is in no buffer

\* what _analyze_batch may return for a batch: no id, ids of the batch, an id
\* that is not in it
ClassifierOutputs(batch) ==
    {<<>>, <<StrayId>>} \cup {<<i>> : i \in Ids(batch)}
        \cup {<<i, j>> : i \in Ids(batch), j \in Ids(batch) \cup {StrayId}}

\* faulty variant: the id is not looked up in the batch
target_msg_unchecked(batch, bug_ids) ==
    [message_id |-> bug_ids[1], user_id |-> 0, text |-> NoMsg]

\* lines 112-113: the batch's message with id bug_ids[0], None when there is none
target_msg(batch, bug_ids) ==
    LET hits == {i \in DOMAIN batch : batch[i].message_id = bug_ids[1]} IN
      IF hits = {} THEN NoTarget
      ELSE batch[CHOOSE i \in hits : \A j \in hits : i <= j]

\* `continue`, or the end of the loop body: on to the next chat id
NextChat(ctx) == [IdleScan EXCEPT !.chat_ids = Tail(ctx.chat_ids)]
NextPc(ctx) == IF Tail(ctx.chat_ids) = <<>> THEN "idle" ELSE "pop"

\* the interval job fires; line 97: SMEMBERS group_chats, in the set's order
scan_start(order) ==
    /\ spc = "idle"
    /\ nTicks < MaxTicks
    /\ nTicks' = nTicks + 1
    /\ sctx' = [IdleScan EXCEPT !.chat_ids = order]
    /\ spc' = IF order = <<>> THEN "idle" ELSE "pop"
    /\ popped' = [c \in Chats |-> <<>>]
    /\ glog' = [glog EXCEPT !.bug_ids = NoLog.bug_ids, !.replies = NoLog.replies]
    /\ UNCHANGED <<restVars, group_buffer, bufferTTL, group_seen, seenTTL, group_chats,
                   outbox, groupVars, nMsgs, nDups, pushed, lateVars>>

\* group_buffer_pop_batch, lines 109-112: LRANGE and LLEN in one pipeline;
\* group.py line 100: an empty batch is skipped
scan_pop ==
    /\ spc = "pop"
    /\ LET c == Head(sctx.chat_ids)
           raw_items == lrange(group_buffer[c], 0, BATCH_SIZE - 1)
           total == Len(group_buffer[c])
       IN IF raw_items = <<>>
            THEN /\ sctx' = NextChat(sctx)
                 /\ spc' = NextPc(sctx)
                 /\ popped' = [popped EXCEPT ![c] = Append(@, <<>>)]
            ELSE /\ sctx' = [sctx EXCEPT !.raw_items = raw_items, !.total = total]
                 /\ spc' = "pop2"
                 /\ UNCHANGED popped
    /\ UNCHANGED <<restVars, group_buffer, bufferTTL, group_seen, seenTTL, group_chats,
                   outbox, groupVars, nTicks, nMsgs, nDups, pushed, glog, lateVars>>

\* group_buffer_pop_batch, lines 113-119: SREM when nothing remains, LTRIM
\* otherwise; the parsed items are returned
scan_pop_finish ==
    /\ spc = "pop2"
    /\ LET c == Head(sctx.chat_ids)
           remaining == sctx.total - Len(sctx.raw_items)
           list == ltrim(group_buffer[c], Len(sctx.raw_items), 0 - 1)
       IN /\ IF remaining <= 0
               THEN /\ group_chats' = group_chats \ {str(c)}
                    /\ UNCHANGED <<group_buffer, bufferTTL, glog>>
               ELSE /\ group_buffer' = [group_buffer EXCEPT ![c] = list]
                    /\ bufferTTL' = [bufferTTL EXCEPT ![c] = IF list = <<>> THEN NoTTL ELSE @]
                    /\ glog' = [glog EXCEPT !.trimmed = @ \cup {c}]
                    /\ UNCHANGED group_chats
          /\ popped' = [popped EXCEPT ![c] = Append(@, parse_items(sctx.raw_items))]
    /\ sctx' = [sctx EXCEPT !.batch = parse_items(sctx.raw_items)]
    /\ spc' = "analyze"
    /\ UNCHANGED <<restVars, group_seen, seenTTL, outbox, groupVars, nTicks, nMsgs,
                   nDups, pushed, lateVars>>

\* lines 103-115: the classifier answers; no id, or an id that is not in the
\* batch, ends the work on this chat
scan_analyze(bug_ids) ==
    /\ spc = "analyze"
    /\ glog' = [glog EXCEPT !.bug_ids[Head(sctx.chat_ids)] = Append(@, bug_ids)]
    /\ IF bug_ids = <<>> \/ target_msg(sctx.batch, bug_ids) = NoTarget
         THEN sctx' = NextChat(sctx) /\ spc' = NextPc(sctx)
         ELSE /\ sctx' = [sctx EXCEPT !.target = target_msg(sctx.batch, bug_ids)]
              /\ spc' = "generate"
    /\ UNCHANGED <<restVars, group_buffer, bufferTTL, group_seen, seenTTL, group_chats,
                   outbox, groupVars, nTicks, nMsgs, nDups, pushed, popped, lateVars>>

\* faulty variant: the exception of _analyze_batch ends the sweep
scan_analyze_aborts ==
    /\ spc = "analyze"
    /\ sctx' = IdleScan
    /\ spc' = "idle"
    /\ UNCHANGED <<restVars, group_buffer, bufferTTL, group_seen, seenTTL, group_chats,
                   outbox, groupVars, nTicks, nMsgs, nDups, pushed, popped, glog,
                   lateVars>>

\* lines 105-107: _analyze_batch raised
scan_analyze_raises ==
    /\ spc = "analyze"
    /\ sctx' = NextChat(sctx)
    /\ spc' = NextPc(sctx)
    /\ UNCHANGED <<restVars, group_buffer, bufferTTL, group_seen, seenTTL, group_chats,
                   outbox, groupVars, nTicks, nMsgs, nDups, pushed, popped, glog,
                   lateVars>>

\* line 118: _generate_reply returned
scan_generate ==
    /\ spc = "generate"
    /\ spc' = "send"
    /\ UNCHANGED <<restVars, group_buffer, bufferTTL, group_seen, seenTTL, group_chats,
                   outbox, groupVars, sctx, nTicks, nMsgs, nDups, pushed, popped, glog,
                   lateVars>>

\* lines 119-121: the reply is sent in answer to the target message
scan_send ==
    /\ spc = "send"
    /\ outbox' = outbox \cup {Sent(Head(sctx.chat_ids), <<"bug_reply", sctx.target.text>>,
                                   sctx.target.message_id)}
    /\ glog' = [glog EXCEPT !.replies[Head(sctx.chat_ids)] =
                                 Append(@, sctx.target.message_id)]
    /\ sctx' = NextChat(sctx)
    /\ spc' = NextPc(sctx)
    /\ UNCHANGED <<restVars, group_buffer, bufferTTL, group_seen, seenTTL, group_chats,
                   groupVars, nTicks, nMsgs, nDups, pushed, popped, lateVars>>

\* lines 126-129: _generate_reply or send_message raised
scan_reply_raises ==
    /\ spc \in {"generate", "send"}
    /\ sctx' = NextChat(sctx)
    /\ spc' = NextPc(sctx)
    /\ UNCHANGED <<restVars, group_buffer, bufferTTL, group_seen, seenTTL, group_chats,
                   outbox, groupVars, nTicks, nMsgs, nDups, pushed, popped, glog,
                   lateVars>>

\* ----------------------------------------------------------------- time
Elapse(ttl) == [k \in DOMAIN ttl |-> IF ttl[k] = NoTTL THEN NoTTL
                                     ELSE IF ttl[k] = 1 THEN NoTTL ELSE ttl[k] - 1]
Expired(ttl) == {k \in DOMAIN ttl : ttl[k] = 1}

\* a day passes: Redis drops every key whose TTL runs out
DayPasses ==
    /\ \E k \in DOMAIN pendingTTL : pendingTTL[k] # NoTTL
       \/ \E c \in Chats : bufferTTL[c] # NoTTL \/ seenTTL[c] # NoTTL
    /\ pending' = [h \in Handles |-> IF h \in Expired(pendingTTL) THEN NoRow ELSE pending[h]]
    /\ pendingTTL' = Elapse(pendingTTL)
    /\ group_buffer' = [c \in Chats |-> IF c \in Expired(bufferTTL) THEN <<>>
                                        ELSE group_buffer[c]]
    /\ bufferTTL' = Elapse(bufferTTL)
    /\ group_seen' = [c \in Chats |-> IF c \in Expired(seenTTL) THEN {} ELSE group_seen[c]]
    /\ seenTTL' = Elapse(seenTTL)
    /\ glog' = [glog EXCEPT
                  !.lapsed = @ \cup UNION {{<<c, m>> : m \in group_seen[c]} :
                                           c \in Expired(seenTTL)},
                  !.trimmed = @ \cup {c \in Expired(bufferTTL) : group_buffer[c] # <<>>}]
    /\ UNCHANGED <<queue, group_chats, sqlVars, tgVars, workerVars, adminVars, groupVars,
                   schedVars, envVars, returned, wlog, consumed, registered, pushed,
                   popped, lateVars>>

\* ------------------------------------------------------- specifications
\* one turn of a worker loop on a job whose agent run does not escalate
QueueWorkerStep(w) ==
    \/ worker_dequeue(w)
    \/ \E has_final \in BOOLEAN : agent_returns(w, has_final)
    \/ handle_new_persist(w)
    \/ handle_new_send(w)

\* the queue and the pool: producers push, the loops drain, handlers may raise
NextQueue ==
    \/ \E u \in Users : handle_user_message(u)
    \/ \E u \in Users : push_resume(u)
    \/ start
    \/ stop
    \/ \E w \in Workers : QueueWorkerStep(w)
    \/ \E w \in Workers : worker_exception(w)

SpecQueue == Init /\ [][NextQueue]_vars

\* the same with every loop polling for ever: no stop and no handler fault
NextPolling ==
    \/ \E u \in Users : handle_user_message(u)
    \/ \E u \in Users : push_resume(u)
    \/ start
    \/ \E w \in Workers : QueueWorkerStep(w)

FairQueue ==
    /\ Init /\ [][NextPolling]_vars
    /\ WF_vars(start)
    /\ \A w \in Workers : WF_vars(QueueWorkerStep(w))

\* one turn of a worker loop, the agent free to call ask_human
WorkerStep(w) ==
    \/ worker_dequeue(w)
    \/ \E has_final \in BOOLEAN : agent_returns(w, has_final)
    \/ adminPosted < MaxEscalations /\ ask_human_send(w)
    \/ ask_human_hset(w)
    \/ ask_human_expire(w)
    \/ ask_human_record(w)
    \/ handle_new_persist(w)
    \/ handle_new_send(w)
    \/ handle_admin_reply_send(w)

AdminStep(a) ==
    \/ \E m \in 1..UntrackedMsg : admin_reply_get(a, m)
    \/ admin_reply_delete(a)
    \/ admin_reply_enqueue(a)
    \/ admin_reply_resolve(a)

\* the escalation round trip: user messages, agent runs that may escalate,
\* admin replies, days passing, and the pool being stopped
NextEsc ==
    \/ \E u \in Users : nJobs < MaxEscalations /\ handle_user_message(u)
    \/ start
    \/ stop
    \/ \E w \in Workers : WorkerStep(w)
    \/ \E w \in Workers : worker_exception(w)
    \/ \E a \in AdminHandlers : AdminStep(a)
    \/ DayPasses

SpecEsc == Init /\ [][NextEsc]_vars

\* a worker loop turn when nothing fails, the agent escalates only while it
\* answers a user message, and every agent run ends with an answer
FairWorkerStep(w) ==
    \/ worker_dequeue(w)
    \/ agent_returns(w, TRUE)
    \/ wjob[w].type = "new" /\ adminPosted < MaxEscalations /\ ask_human_send(w)
    \/ ask_human_hset(w)
    \/ ask_human_expire(w)
    \/ ask_human_record(w)
    \/ handle_new_persist(w)
    \/ handle_new_send(w)
    \/ handle_admin_reply_send(w)

AdminFinish(a) ==
    \/ admin_reply_delete(a)
    \/ admin_reply_enqueue(a)
    \/ admin_reply_resolve(a)

\* the round trip of one user turn, with a running pool and no fault
NextRoundTrip ==
    \/ \E u \in Users : nJobs = 0 /\ handle_user_message(u)
    \/ start
    \/ \E w \in Workers : FairWorkerStep(w)
    \/ \E a \in AdminHandlers : AdminStep(a)
    \/ DayPasses

\* the same steps, with no fairness assumed
SpecRoundTrip == Init /\ [][NextRoundTrip]_vars

\* every coroutine that can take its next step eventually takes it
FairEsc ==
    /\ Init /\ [][NextRoundTrip]_vars
    /\ WF_vars(start)
    /\ \A w \in Workers : WF_vars(FairWorkerStep(w))
    /\ \A a \in AdminHandlers : WF_vars(AdminFinish(a))

\* the deliveries the environment makes: the second chat has a single message
Traffic(c) == IF c = -1 THEN MaxMsgId ELSE 1

CollectFinish(g) ==
    \/ collect_sadd(g)
    \/ collect_expire(g)
    \/ collect_push(g)

\* deliveries of group messages and days passing; a delivery that is handled
\* while another is in progress is a redelivery
NextCollect ==
    \/ \E c \in Chats, m \in 1..MaxMsgId :
          m <= Traffic(c) /\ collect_check("g1", c, m)
    \/ \E c \in Chats, m \in 1..MaxMsgId :
          m <= Min(nMsgs[c], Traffic(c)) /\ collect_check("g2", c, m)
    \/ \E g \in GroupHandlers : CollectFinish(g)
    \/ DayPasses

SpecCollect == Init /\ [][NextCollect]_vars

ScanStep ==
    \/ \E order \in Orders(group_get_chat_ids(group_chats)) : scan_start(order)
    \/ scan_pop
    \/ scan_pop_finish
    \/ \E bug_ids \in ClassifierOutputs(sctx.batch) : scan_analyze(bug_ids)
    \/ scan_analyze_raises
    \/ scan_generate
    \/ scan_send
    \/ scan_reply_raises

\* the group monitor: new group messages are collected while the interval
\* scan runs
NextScan ==
    \/ \E c \in Chats, m \in 1..MaxMsgId :
          m > nMsgs[c] /\ m <= Traffic(c) /\ collect_check("g1", c, m)
    \/ CollectFinish("g1")
    \/ ScanStep

SpecScan == Init /\ [][NextScan]_vars

\* ================================================================ claims
InQueue(k) == \E i \in 1..Len(queue) : JobKey(json_loads(queue[i])) = k

\* the n-th job the producers pushed is a user message or a resume
Pushed(n) == {NewText(n), ResumeText(n)}

\* C1: with every worker loop polling, each enqueued job is eventually returned
\* by dequeue_job, and no job is ever returned twice (to two workers, or twice
\* to one).
C1_ExactlyOnce ==
    /\ [](\A k \in JobKeys : returned[k] <= 1)
    /\ \A n \in 1..MaxJobs :
          (\E k \in Pushed(n) : InQueue(k))
             ~> (\E k \in Pushed(n) : returned[k] = 1 /\ ~InQueue(k))

\* every loop holds a job that dequeue_job returned, and they are different jobs
C1_Witness ==
    /\ \A w \in Workers : wjob[w] # NoJob
    /\ \E v, w \in Workers : JobKey(wjob[v]) # JobKey(wjob[w])
    /\ \A w \in Workers : returned[JobKey(wjob[w])] = 1

\* C10: a job whose handler raised was logged by the loop, is not back on the
\* queue and is never returned again; the loop that caught it is not retrying
\* it; and a loop has ended only if the pool was stopped (cancelled).
C10_ExceptionDiscardsJob ==
    /\ \A rec \in wlog : rec.ev = "exception" =>
          /\ ~InQueue(rec.key)
          /\ returned[rec.key] = 1
          /\ wjob[rec.w] # NoJob => JobKey(wjob[rec.w]) # rec.key
          /\ wpc[rec.w] \in {"dequeue", "ended"} \cup HandlerPcs
    /\ \A w \in Workers : wpc[w] = "ended" => pool = "stopped"

\* a loop that caught the exception of one job is running the handler of a later one
C10_Witness ==
    \E rec \in wlog :
        /\ rec.ev = "exception"
        /\ wpc[rec.w] \in HandlerPcs
        /\ JobKey(wjob[rec.w]) # rec.key

\* C3: an admin reply handled while the escalation's row is live is given the
\* row ask_human registered; the admin_reply job built from it carries the
\* row's thread, chat and user with the reply's text; and the user's chat
\* eventually receives the relay of that reply.
Relay(text) == <<"support", <<"relay", text>>>>

RowOf(rec) == rec.row = registered[rec.h]

JobOf(rec) == [type |-> "admin_reply", thread_id |-> rec.row.thread_id,
               chat_id |-> int(rec.row.user_chat_id), user_id |-> int(rec.row.user_id),
               admin_reply |-> rec.text]

C2_AtMostOneConsumer ==
    \A h \in Handles : Cardinality({rec \in consumed : rec.h = h}) <= 1

\* C4: a row in the store has a TTL of at most 72 h running, unless the
\* set_admin_pending call that wrote it is still between its two commands.
C4_RowsExpire ==
    \A h \in Handles :
        pending[h] # NoRow =>
            \/ pendingTTL[h] \in 1..ADMIN_PENDING_TTL
            \/ \E w \in Workers : wpc[w] = "ask_expire" /\ wctx[w].h = h

\* ------------------------------------------------------------ group claims
Count(list, m) == Cardinality({i \in DOMAIN list : json_loads(list[i]).message_id = m})

InOrder(c, m) == <<c, m>> \notin glog.raced /\ <<c, m>> \notin glog.lapsed

\* C5: when the deliveries of a group message are handled one after the other
\* and the seen set has not expired in between, the message is pushed once;
\* a delivery dropped as seen finds exactly one push of it, and exactly one
\* entry in the buffer unless the entry was evicted or the buffer expired.
C5_SecondDeliveryIsNoOp ==
    \A c \in Chats, m \in 1..MaxMsgId :
        InOrder(c, m) =>
            /\ Count(pushed[c], m) <= 1
            /\ Count(group_buffer[c], m) <= 1
            /\ <<c, m>> \in glog.dropped =>
                  /\ Count(pushed[c], m) = 1
                  /\ (c \notin glog.trimmed /\ Len(pushed[c]) <= GROUP_BUFFER_MAX)
                        => Count(group_buffer[c], m) = 1

\* a second delivery was dropped and the buffer holds the message once, among others
C5_Witness ==
    \E c \in Chats, m \in 1..MaxMsgId :
        /\ InOrder(c, m)
        /\ <<c, m>> \in glog.dropped
        /\ Count(group_buffer[c], m) = 1
        /\ Len(group_buffer[c]) > 1
        /\ \A g \in GroupHandlers : gpc[g] = "idle"

Suffix(list, n) == SubSeq(list, Len(list) - n + 1, Len(list))

\* C6: a chat's buffer never holds more than GROUP_BUFFER_MAX entries; it is
\* always the most recent pushes, in push order; and while nothing but pushes
\* touched it, it holds the last min(pushes, GROUP_BUFFER_MAX) of them.
C6_BufferCap ==
    \A c \in Chats :
        /\ Len(group_buffer[c]) <= GROUP_BUFFER_MAX
        /\ group_buffer[c] = Suffix(pushed[c], Len(group_buffer[c]))
        /\ c \notin glog.trimmed =>
              Len(group_buffer[c]) = Min(Len(pushed[c]), GROUP_BUFFER_MAX)

\* more than the cap was pushed and the oldest entry is gone
C6_Witness ==
    \E c \in Chats :
        /\ c \notin glog.trimmed
        /\ Len(pushed[c]) > GROUP_BUFFER_MAX
        /\ Len(group_buffer[c]) = GROUP_BUFFER_MAX
        /\ Head(group_buffer[c]) # Head(pushed[c])

PushCompletes(c) == Len(pushed'[c]) > Len(pushed[c])
PopCompletes(c) == Len(popped'[c]) > Len(popped[c])

\* C7: when a group_buffer_push or a group_buffer_pop_batch for a chat
\* completes, the chat is in the registry exactly if its buffer is non-empty.
C7_RegistryTracksBuffer ==
    [][\A c \in Chats :
          (PushCompletes(c) \/ PopCompletes(c)) =>
              (str(c) \in group_chats' <=> group_buffer'[c] # <<>>)]_vars

\* C8: group_buffer_pop_batch returns the min(size, n) oldest entries of the
\* buffer in order, and when it completes exactly those are gone from the
\* buffer.
C8_PopTakesOldest ==
    [][\A c \in Chats :
          PopCompletes(c) =>
              LET batch == popped'[c][Len(popped'[c])]
                  n == Len(group_buffer[c])
              IN /\ batch = parse_items(SubSeq(group_buffer[c], 1, Min(BATCH_SIZE, n)))
                 /\ group_buffer'[c] = SubSeq(group_buffer[c], Len(batch) + 1, n)]_vars

\* C9: in one scan a chat's buffer is popped once and the chat gets at most
\* one reply; the reply answers the message of the popped batch that the
\* classifier named first; when the classifier names none, or one that is
\* not in the batch, the chat gets no reply.
C9_OneReplyPerChat ==
    /\ \A c \in Chats :
          /\ Len(popped[c]) <= 1
          /\ Len(glog.bug_ids[c]) <= 1
          /\ Len(glog.replies[c]) <= 1
          /\ \A i \in DOMAIN glog.replies[c] :
                /\ Len(popped[c]) = 1
                /\ glog.replies[c][i] \in Ids(popped[c][1])
                /\ Len(glog.bug_ids[c]) = 1
                /\ glog.bug_ids[c][1] # <<>>
                /\ glog.bug_ids[c][1][1] = glog.replies[c][i]
          /\ \A i \in DOMAIN glog.bug_ids[c] :
                (glog.bug_ids[c][i] = <<>> \/ glog.bug_ids[c][i][1] \notin Ids(popped[c][1]))
                    => glog.replies[c] = <<>>
    /\ spc \in {"generate", "send"} =>
          \E i \in DOMAIN sctx.batch : sctx.batch[i] = sctx.target
    /\ \A sent \in outbox : Count(pushed[sent.chat], sent.reply_to) >= 1

\* a reply went to the second message of a two-message batch
C9_Witness ==
    \E c \in Chats :
        /\ Len(popped[c]) = 1
        /\ Len(popped[c][1]) = 2
        /\ glog.replies[c] = <<popped[c][1][2].message_id>>
        /\ Sent(c, <<"bug_reply", popped[c][1][2].text>>, popped[c][1][2].message_id)
              \in outbox

\* ------------------------------------------------- dispatch and shutdown
\* the jobs whose type tag workers/worker.py has no handler for
UnknownKeys == {ResumeText(n) : n \in 1..MaxJobs}

\* what a handler would have produced for the job with key k
Produced(k) ==
    \/ \E row \in messages : row.user_text = k
    \/ \E sent \in outbox : sent.body = <<"answer", k>>
    \/ \E h \in Handles : pending[h] # NoRow /\ pending[h].question = <<"q", k>>

\* C11: a job of an unknown type that dequeue_job returned was logged with a
\* warning, no handler holds it, nothing was sent or stored for it, it is not
\* back on the queue, and the loop that dropped it is dequeuing or handling
\* later jobs unless the pool was stopped.
C11_UnknownTypeDiscarded ==
    \A k \in UnknownKeys :
        returned[k] >= 1 =>
            /\ returned[k] = 1
            /\ ~InQueue(k)
            /\ ~Produced(k)
            /\ \A w \in Workers : wjob[w] # NoJob => JobKey(wjob[w]) # k
            /\ \E rec \in wlog :
                  /\ rec.key = k /\ rec.ev = "unknown"
                  /\ wpc[rec.w] \in {"dequeue", "ended"} \cup HandlerPcs
                  /\ wpc[rec.w] = "ended" => pool = "stopped"

\* a loop handled a user message, then dropped an unknown job and polls again
C11_Witness ==
    \E rec \in wlog :
        /\ rec.ev = "unknown"
        /\ pool = "running"
        /\ wpc[rec.w] = "dequeue"
        /\ returned[rec.key] = 1
        /\ \E sent \in outbox : sent.chat \in Users

\* C12: no job that enqueue_new_message, enqueue_resume or
\* enqueue_admin_reply pushed is dropped by a worker loop as of unknown type.
C12_EveryJobHasAHandler ==
    \A rec \in wlog : rec.ev # "unknown"

\* ------------------------------------------------- start and stop, repeated
\* a pool whose start() and stop() are called in any order, any loop of either
\* generation draining the queue
NextPool ==
    \/ \E u \in Users : handle_user_message(u)
    \/ start
    \/ start_again
    \/ stop
    \/ \E w \in Loops : QueueWorkerStep(w)

SpecPool == Init /\ [][NextPool]_vars

\* C13: once stop() has returned, no loop the pool ever spawned is still
\* polling the queue or running a handler
C13_StopEndsEveryLoop ==
    pool = "stopped" => \A w \in Loops : wpc[w] \in {"off", "ended"}

\* C14: stop() ends a loop only while it polls the queue: a loop that holds a
\* job is left to finish its handler first
C14_StopLetsHandlersFinish ==
    [][\A w \in Loops :
          (wpc[w] # "ended" /\ wpc'[w] = "ended") => wpc[w] = "dequeue"]_vars

\* C16: when the write to the message log raises and the agent had produced
\* an answer, the answer is delivered to the user all the same
C16_PersistFailureStillDelivers ==
    [][\A w \in Workers :
          (wpc[w] = "persist" /\ wctx[w].final # NoMsg /\ wpc'[w] = "dequeue")
              => Sent(wjob[w].chat_id, wctx[w].final, 0) \in outbox']_vars

\* ------------------------------------------- queue/worker.py: the other pool
\* Its loops handle "new" and "resume" jobs, and its handler of a new message
\* looks for an interrupted agent run.
QueuePcs == {"q_ainvoke", "q_notify", "q_set_pending", "q_send", "q_resume",
             "q_resume_send"}

\* _worker_loop, lines 175-181
QueueDispatch(job) ==
    IF job.type = "new" THEN "q_ainvoke"
    ELSE IF job.type = "resume" THEN "q_resume"
    ELSE "dequeue"

\* _worker_loop, lines 171-181
queue_worker_dequeue(w) ==
    /\ wpc[w] = "dequeue"
    /\ queue # <<>>
    /\ LET job == dequeue_job(queue) IN
         /\ queue' = blpop_rest(queue)
         /\ returned' = [returned EXCEPT ![JobKey(job)] = @ + 1]
         /\ wpc' = [wpc EXCEPT ![w] = QueueDispatch(job)]
         /\ wjob' = [wjob EXCEPT ![w] = IF QueueDispatch(job) = "dequeue" THEN NoJob
                                        ELSE job]
         /\ wlog' = IF QueueDispatch(job) = "dequeue"
                      THEN wlog \cup {[w |-> w, key |-> JobKey(job), ev |-> "unknown"]}
                      ELSE wlog
    /\ wctx' = [wctx EXCEPT ![w] = IdleCtx]
    /\ UNCHANGED <<pending, pendingTTL, group_buffer, bufferTTL, group_seen, seenTTL,
                   group_chats, sqlVars, tgVars, pool, adminVars, groupVars, schedVars,
                   envVars, consumed, registered, pushed, popped, glog, lateVars>>

AgentOutcomes == {"final", "none", "interrupt"}

\* _handle_new, lines 83-98: ainvoke returns and aget_state tells whether the
\* run is suspended on an interrupt that carries a question
queue_agent_returns(w, outcome) ==
    /\ wpc[w] = "q_ainvoke"
    /\ outcome \in AgentOutcomes
    /\ outcome = "interrupt" => adminPosted < MaxHandles
    /\ wctx' = [wctx EXCEPT ![w].final = IF outcome = "final" THEN AgentAnswer(wjob[w])
                                          ELSE NoMsg,
                            ![w].asked = (outcome = "interrupt")]
    /\ wpc' = [wpc EXCEPT ![w] = IF outcome = "interrupt" THEN "q_notify" ELSE "q_send"]
    /\ UNCHANGED <<redisVars, sqlVars, tgVars, pool, wjob, adminVars, groupVars,
                   schedVars, envVars, histVars, lateVars>>

\* _notify_admin_escalation, lines 149-153: the question goes to the admin group
notify_admin_send(w) ==
    /\ wpc[w] = "q_notify"
    /\ adminPosted' = adminPosted + 1
    /\ wctx' = [wctx EXCEPT ![w].h = adminPosted + 1]
    /\ wpc' = [wpc EXCEPT ![w] = "q_set_pending"]
    /\ UNCHANGED <<redisVars, sqlVars, outbox, pool, wjob, adminVars, groupVars,
                   schedVars, envVars, histVars, lateVars>>

\* the parameters of redis_store.set_admin_pending, none with a default
set_admin_pending_params ==
    {"admin_msg_id", "thread_id", "user_chat_id", "user_id", "escalation_question"}

\* the keyword arguments _notify_admin_escalation passes, lines 154-159
notify_admin_kwargs ==
    {"admin_msg_id", "thread_id", "user_chat_id", "escalation_question"}

\* Python binds a call made with keywords only when every keyword names a
\* parameter and every parameter without a default is given; otherwise the
\* call raises TypeError before the function body runs
Binds(params, kwargs) == kwargs = params

\* the holding acknowledgment, lines 105-109
HoldingAck == <<"ack">>

\* _notify_admin_escalation, lines 154-159: the call of set_admin_pending.
\* When it binds, HSET and EXPIRE run and _handle_new goes on to the holding
\* acknowledgment; when it does not, TypeError reaches the loop's handler
\* (lines 186-188) and the job is dropped
notify_admin_set_pending(w) ==
    /\ wpc[w] = "q_set_pending"
    /\ IF Binds(set_admin_pending_params, notify_admin_kwargs)
         THEN /\ pending' = set_admin_pending_hset(pending, wctx[w].h, wjob[w].thread_id,
                                                   wjob[w].chat_id, 0, Question(wjob[w]))
              /\ pendingTTL' = set_admin_pending_expire(pendingTTL, pending', wctx[w].h)
              /\ registered' = [registered EXCEPT ![wctx[w].h] = pending'[wctx[w].h]]
              /\ wpc' = [wpc EXCEPT ![w] = "q_send"]
              /\ UNCHANGED <<wjob, wctx, wlog>>
         ELSE /\ wlog' = wlog \cup {[w |-> w, key |-> JobKey(wjob[w]), ev |-> "exception"]}
              /\ wpc' = [wpc EXCEPT ![w] = "dequeue"]
              /\ wjob' = [wjob EXCEPT ![w] = NoJob]
              /\ wctx' = [wctx EXCEPT ![w] = IdleCtx]
              /\ UNCHANGED <<pending, pendingTTL, registered>>
    /\ UNCHANGED <<queue, group_buffer, bufferTTL, group_seen, seenTTL, group_chats,
                   sqlVars, tgVars, pool, adminVars, groupVars, schedVars, envVars,
                   returned, consumed, pushed, popped, glog, lateVars>>

\* _handle_new, lines 105-110 after an escalation, lines 112-115 otherwise
queue_handle_new_send(w) ==
    /\ wpc[w] = "q_send"
    /\ outbox' = IF wctx[w].asked THEN outbox \cup {Sent(wjob[w].chat_id, HoldingAck, 0)}
                 ELSE IF wctx[w].final # NoMsg
                   THEN outbox \cup {Sent(wjob[w].chat_id, wctx[w].final, 0)}
                 ELSE outbox
    /\ wpc' = [wpc EXCEPT ![w] = "dequeue"]
    /\ wjob' = [wjob EXCEPT ![w] = NoJob]
    /\ wctx' = [wctx EXCEPT ![w] = IdleCtx]
    /\ UNCHANGED <<redisVars, sqlVars, adminPosted, pool, adminVars, groupVars,
                   schedVars, envVars, histVars, lateVars>>

\* _handle_resume, lines 126-131: the run resumed with the admin's answer returns
queue_resume_returns(w, has_final) ==
    /\ wpc[w] = "q_resume"
    /\ wctx' = [wctx EXCEPT ![w].final = IF has_final THEN <<"relay", wjob[w].human_reply>>
                                          ELSE NoMsg]
    /\ wpc' = [wpc EXCEPT ![w] = "q_resume_send"]
    /\ UNCHANGED <<redisVars, sqlVars, tgVars, pool, wjob, adminVars, groupVars,
                   schedVars, envVars, histVars, lateVars>>

\* _handle_resume, lines 133-136
queue_handle_resume_send(w) ==
    /\ wpc[w] = "q_resume_send"
    /\ outbox' = IF wctx[w].final # NoMsg
                   THEN outbox \cup {Sent(wjob[w].user_chat_id, wctx[w].final, 0)}
                   ELSE outbox
    /\ wpc' = [wpc EXCEPT ![w] = "dequeue"]
    /\ wjob' = [wjob EXCEPT ![w] = NoJob]
    /\ wctx' = [wctx EXCEPT ![w] = IdleCtx]
    /\ UNCHANGED <<redisVars, sqlVars, adminPosted, pool, adminVars, groupVars,
                   schedVars, envVars, histVars, lateVars>>

NextInterrupt ==
    \/ \E u \in Users : handle_user_message(u)
    \/ \E u \in Users : push_resume(u)
    \/ start
    \/ stop
    \/ \E w \in Workers :
          \/ queue_worker_dequeue(w)
          \/ \E outcome \in AgentOutcomes : queue_agent_returns(w, outcome)
          \/ notify_admin_send(w)
          \/ notify_admin_set_pending(w)
          \/ queue_handle_new_send(w)
          \/ \E has_final \in BOOLEAN : queue_resume_returns(w, has_final)
          \/ queue_handle_resume_send(w)

SpecInterrupt == Init /\ [][NextInterrupt]_vars

\* C15: a handler whose agent run ended suspended on a question leaves only
\* after the question was posted, the pending row keyed by the posted message
\* was written and the user was sent the holding acknowledgment, and it
\* delivers no final message for the turn
C15_SuspendedTurnIsRegistered ==
    [][\A w \in Workers :
          (wctx[w].asked /\ wpc[w] \in QueuePcs /\ wpc'[w] = "dequeue") =>
              /\ wctx[w].h \in 1..adminPosted
              /\ pending'[wctx[w].h] # NoRow
              /\ pending'[wctx[w].h].thread_id = wjob[w].thread_id
              /\ Sent(wjob[w].chat_id, HoldingAck, 0) \in outbox'
              /\ \A sent \in outbox' : sent.body # AgentAnswer(wjob[w])]_vars

\* ------------------------------------------ set_admin_pending, called again
\* redis_store.set_admin_pending called by itself: HSET, then EXPIRE
set_admin_pending_call(h, u, n) ==
    /\ ppc = "idle"
    /\ nCalls < MaxCalls
    /\ nCalls' = nCalls + 1
    /\ pending' = set_admin_pending_hset(pending, h, _new_thread_id(u, 1), u, u,
                                         <<"q", NewText(n)>>)
    /\ pctx' = [h |-> h, thread_id |-> _new_thread_id(u, 1), user_chat_id |-> u,
                user_id |-> u, question |-> <<"q", NewText(n)>>,
                before |-> pending[h], ttl_before |-> pendingTTL[h]]
    /\ ppc' = "expire"
    /\ UNCHANGED <<queue, pendingTTL, group_buffer, bufferTTL, group_seen, seenTTL,
                   group_chats, sqlVars, tgVars, workerVars, adminVars, groupVars,
                   schedVars, envVars, histVars, tasks, lookupVars>>

\* set_admin_pending, lines 171-172: the EXPIRE, and the call returns
set_admin_pending_return ==
    /\ ppc = "expire"
    /\ pendingTTL' = set_admin_pending_expire(pendingTTL, pending, pctx.h)
    /\ ppc' = "idle"
    /\ UNCHANGED <<queue, pending, group_buffer, bufferTTL, group_seen, seenTTL,
                   group_chats, sqlVars, tgVars, workerVars, adminVars, groupVars,
                   schedVars, envVars, histVars, tasks, pctx, nCalls, lookupVars>>

\* calls one after the other, days passing between them
NextPending ==
    \/ \E h \in Handles, u \in Users, n \in 1..MaxJobs : set_admin_pending_call(h, u, n)
    \/ set_admin_pending_return
    \/ ppc = "idle" /\ DayPasses

SpecPending == Init /\ [][NextPending]_vars

\* the row a call is to leave: its arguments, the integers as strings
RowOfCall(call) ==
    [thread_id |-> call.thread_id, user_chat_id |-> str(call.user_chat_id),
     user_id |-> str(call.user_id), question |-> call.question]

C18_UnmatchedReplyIsNoOp ==
    [][(nReplies' = nReplies + 1 /\ apc' = apc) =>
          /\ queue' = queue
          /\ pending' = pending /\ pendingTTL' = pendingTTL
          /\ escalations' = escalations
          /\ outbox' = outbox /\ adminPosted' = adminPosted
          /\ consumed' = consumed
          /\ wlog' = wlog]_vars

\* two replies were made to the one question: the first consumed the row, the
\* second found none and its handler is idle again
C18_Witness ==
    /\ nReplies = 2
    /\ \A a \in AdminHandlers : apc[a] = "idle"
    /\ Cardinality(consumed) = 1
    /\ \A h \in Handles : pending[h] = NoRow
    /\ \E rec \in consumed : \E job \in {json_loads(queue[i]) : i \in 1..Len(queue)} :
          job.type = "admin_reply" /\ job.admin_reply = rec.text

\* --------------------------------------------------- threads and /restart
\* reset_thread_id, lines 120-125: the row is read and a new id drawn; a
\* missing row is to be inserted, an existing one updated
reset_get(c, u) ==
    /\ upc[c] = "idle"
    /\ nTokens <= MaxResets
    /\ nTokens' = nTokens + 1
    /\ uctx' = [uctx EXCEPT ![c] = [user_id |-> u,
                                    thread_id |-> _new_thread_id(u, nTokens + 1),
                                    insert |-> (user_sessions[u] = NoThread)]]
    /\ upc' = [upc EXCEPT ![c] = "reset_commit"]
    /\ UNCHANGED <<redisVars, sqlVars, tgVars, workerVars, adminVars, groupVars,
                   schedVars, envVars, histVars, tasks, callVars>>

\* reset_thread_id, lines 128-129: the commit. An INSERT for a user_id that
\* has a row by now violates the primary key and raises IntegrityError
reset_commit(c) ==
    /\ upc[c] = "reset_commit"
    /\ IF uctx[c].insert /\ user_sessions[uctx[c].user_id] # NoThread
         THEN /\ upc' = [upc EXCEPT ![c] = "raised"]
              /\ UNCHANGED user_sessions
         ELSE /\ user_sessions' = [user_sessions EXCEPT ![uctx[c].user_id] =
                                                         uctx[c].thread_id]
              /\ upc' = [upc EXCEPT ![c] = "reset_reply"]
    /\ UNCHANGED <<redisVars, messages, escalations, tgVars, workerVars, adminVars,
                   groupVars, schedVars, envVars, histVars, tasks, callVars, uctx,
                   nTokens>>

ResetDone == <<"reset done">>

\* handle_restart, line 46: the confirmation
handle_restart_reply(c) ==
    /\ upc[c] = "reset_reply"
    /\ outbox' = outbox \cup {Sent(uctx[c].user_id, ResetDone, 0)}
    /\ upc' = [upc EXCEPT ![c] = "idle"]
    /\ uctx' = [uctx EXCEPT ![c] = NoLookup]
    /\ UNCHANGED <<redisVars, sqlVars, adminPosted, workerVars, adminVars, groupVars,
                   schedVars, envVars, histVars, tasks, callVars, nTokens>>

\* one step of a /restart handler
RestartStep(c) ==
    \/ \E u \in Users : reset_get(c, u)
    \/ reset_commit(c)
    \/ handle_restart_reply(c)

\* users write and restart while the pool drains the queue
NextRestart ==
    \/ \E u \in Users : handle_user_message(u)
    \/ start
    \/ \E w \in Workers : QueueWorkerStep(w)
    \/ \E c \in Callers : RestartStep(c)

SpecRestart == Init /\ [][NextRestart]_vars

\* C19: a handler that starts an agent run passes the thread id the user's
\* session row holds at that moment: an id replaced by a reset is not used
\* again
C19_ResetRetiresOldThread ==
    [][\A w \in Workers :
          (wpc[w] = "dequeue" /\ wpc'[w] = "ainvoke") =>
              wjob'[w].thread_id = user_sessions[wjob'[w].user_id]]_vars

\* --------------------------------------- get_or_create_thread_id, in steps
\* handle_user_message, line 54, and get_or_create_thread_id, lines 109-112:
\* session.get finds the row and its id is returned, or finds none and a row
\* with a new id is added to the session
lookup_get(c, u) ==
    /\ upc[c] = "idle"
    /\ nJobs < MaxJobs
    /\ nJobs' = nJobs + 1
    /\ IF user_sessions[u] # NoThread
         THEN /\ uctx' = [uctx EXCEPT ![c] = [user_id |-> u,
                                              thread_id |-> user_sessions[u],
                                              insert |-> FALSE]]
              /\ upc' = [upc EXCEPT ![c] = "enqueue"]
              /\ UNCHANGED nTokens
         ELSE /\ uctx' = [uctx EXCEPT ![c] = [user_id |-> u,
                                              thread_id |-> _new_thread_id(u, nTokens),
                                              insert |-> TRUE]]
              /\ upc' = [upc EXCEPT ![c] = "commit"]
              /\ nTokens' = nTokens + 1
    /\ UNCHANGED <<redisVars, sqlVars, tgVars, workerVars, adminVars, groupVars,
                   schedVars, nReplies, nTicks, nMsgs, nDups, histVars, tasks, callVars>>

\* get_or_create_thread_id, lines 113-115: the INSERT is committed and the new
\* id returned; a row another call inserted meanwhile makes the commit raise
\* IntegrityError, which ends the handler
lookup_commit(c) ==
    /\ upc[c] = "commit"
    /\ IF user_sessions[uctx[c].user_id] # NoThread
         THEN /\ upc' = [upc EXCEPT ![c] = "raised"]
              /\ UNCHANGED user_sessions
         ELSE /\ user_sessions' = [user_sessions EXCEPT ![uctx[c].user_id] =
                                                         uctx[c].thread_id]
              /\ upc' = [upc EXCEPT ![c] = "enqueue"]
    /\ UNCHANGED <<redisVars, messages, escalations, tgVars, workerVars, adminVars,
                   groupVars, schedVars, envVars, histVars, tasks, callVars, uctx,
                   nTokens>>

\* handle_user_message, lines 59-66: the job is pushed with the id returned
lookup_enqueue(c) ==
    /\ upc[c] = "enqueue"
    /\ queue' = enqueue_new_message(queue, uctx[c].user_id, uctx[c].user_id,
                                    uctx[c].thread_id, NewText(Len(queue) + 1))
    /\ upc' = [upc EXCEPT ![c] = "returned"]
    /\ UNCHANGED <<pending, pendingTTL, group_buffer, bufferTTL, group_seen, seenTTL,
                   group_chats, sqlVars, tgVars, workerVars, adminVars, groupVars,
                   schedVars, envVars, histVars, tasks, callVars, uctx, nTokens>>

\* the handler is free for the next update
lookup_done(c) ==
    /\ upc[c] \in {"returned", "raised"}
    /\ upc' = [upc EXCEPT ![c] = "idle"]
    /\ uctx' = [uctx EXCEPT ![c] = NoLookup]
    /\ UNCHANGED <<redisVars, sqlVars, tgVars, workerVars, adminVars, groupVars,
                   schedVars, envVars, histVars, tasks, callVars, nTokens>>

\* messages of users handled at the same time, no /restart
NextThread ==
    \E c \in Callers :
        \/ \E u \in Users : lookup_get(c, u)
        \/ lookup_commit(c)
        \/ lookup_enqueue(c)
        \/ lookup_done(c)

SpecThread == Init /\ [][NextThread]_vars

\* C20: no call of get_or_create_thread_id fails, and every call made for a
\* user got the id of the user's one session row
C20_OneThreadPerUser ==
    /\ \A c \in Callers : upc[c] # "raised"
    /\ \A c \in Callers :
          upc[c] \in {"enqueue", "returned"} =>
              uctx[c].thread_id = user_sessions[uctx[c].user_id]
    /\ \A i \in 1..Len(queue) :
          json_loads(queue[i]).thread_id = user_sessions[json_loads(queue[i]).user_id]

\* ------------------------------------------------------- order of the queue
\* the position a job had among the pushes of the producers
PushNo(k) == k[2]

WasReturned(n) == \E k \in Pushed(n) : returned[k] >= 1

\* C21: jobs leave the queue in the order their pushes completed: the list is
\* in push order, a job is returned only after every job pushed before it,
\* and every job pushed and not yet returned is in the list, however long
C21_FifoPerProducer ==
    /\ \A i, j \in 1..Len(queue) :
          i < j => PushNo(JobKey(json_loads(queue[i]))) < PushNo(JobKey(json_loads(queue[j])))
    /\ \A m, n \in 1..MaxJobs : (m < n /\ WasReturned(n)) => WasReturned(m)
    /\ \A n \in 1..MaxJobs :
          (\E k \in Pushed(n) : InQueue(k)) <=> (n <= nJobs /\ ~WasReturned(n))
    /\ Len(queue) = Cardinality({n \in 1..nJobs : ~WasReturned(n)})

\* two jobs were waiting together; the first pushed is with a handler, the
\* second is at the head of the list
C21_Witness ==
    /\ nJobs >= 2
    /\ \E w \in Workers : wjob[w] # NoJob /\ PushNo(JobKey(wjob[w])) = 1
    /\ \A w \in Workers : wjob[w] # NoJob => PushNo(JobKey(wjob[w])) = 1
    /\ queue # <<>> /\ PushNo(JobKey(json_loads(Head(queue)))) = 2

\* ------------------------------------------------- replies and escalations
\* the replies to handle h for which an admin_reply job was pushed
Enqueued(h) ==
    {rec \in consumed : rec.h = h /\ (InQueue(rec.text) \/ returned[rec.text] >= 1)}

\* the relays of replies to handle h the user was sent
Relayed(h) ==
    {sent \in outbox : \E rec \in consumed : rec.h = h /\ sent.body = Relay(rec.text)}

\* C22: an escalation gets at most one admin_reply job and its user at most
\* one relay, however many replies are made to its message
C22_OneJobPerEscalation ==
    \A h \in Handles : Cardinality(Enqueued(h)) <= 1 /\ Cardinality(Relayed(h)) <= 1

\* a worker loop turn when nothing fails; the agent may escalate while it
\* answers a user message
AssocWorkerStep(w) ==
    \/ worker_dequeue(w)
    \/ agent_returns(w, TRUE)
    \/ wjob[w].type = "new" /\ ask_human_send(w)
    \/ ask_human_hset(w)
    \/ ask_human_expire(w)
    \/ ask_human_record(w)
    \/ handle_new_persist(w)
    \/ handle_new_send(w)
    \/ handle_admin_reply_send(w)

\* the users each write once, their turns may escalate side by side, and the
\* admins' replies, to any message of the group, are handled one at a time
NextAssoc ==
    \/ \E u \in Users : user_sessions[u] = NoThread /\ handle_user_message(u)
    \/ start
    \/ \E w \in Workers : AssocWorkerStep(w)
    \/ AdminStep("a1")

SpecAssoc == Init /\ [][NextAssoc]_vars

AdminReplyJobs ==
    {json_loads(queue[i]) : i \in 1..Len(queue)} \cup {wjob[w] : w \in Workers}

\* C23: with escalations of several users pending together, the job a reply
\* to message h produces carries the thread, chat and user registered under
\* h, which are those of the user whose turn escalated, and the relay goes
\* to that chat and to no other
C23_ReplyReachesItsThread ==
    /\ \A h \in Handles :
          registered[h] # NoRow =>
              /\ registered[h].thread_id = user_sessions[int(registered[h].user_id)]
              /\ registered[h].user_chat_id = registered[h].user_id
    /\ \A job \in AdminReplyJobs :
          job.type = "admin_reply" =>
              \E rec \in consumed :
                  /\ rec.h \in Handles
                  /\ rec.text = job.admin_reply
                  /\ job.thread_id = registered[rec.h].thread_id
                  /\ job.chat_id = int(registered[rec.h].user_chat_id)
                  /\ job.user_id = int(registered[rec.h].user_id)
    /\ \A sent \in outbox : \A n \in 1..MaxReplies :
          sent.body = Relay(ReplyText(n)) =>
              \E rec \in consumed :
                  /\ rec.h \in Handles
                  /\ rec.text = ReplyText(n)
                  /\ sent.chat = int(registered[rec.h].user_chat_id)

\* the reply to the later of two pending escalations was relayed to its
\* user while the earlier one, of the other user, is still pending
C23_Witness ==
    \E rec \in consumed : \E h \in Handles :
        /\ h < rec.h
        /\ pending[h] # NoRow
        /\ registered[h].user_chat_id # registered[rec.h].user_chat_id
        /\ Sent(int(registered[rec.h].user_chat_id), Relay(rec.text), 0) \in outbox

\* ------------------------------------------------ the loop and its failures
StoreError == <<"store", 0>>

\* faulty variant: the exception of BLPOP is not caught and ends the loop
worker_dequeue_raises_fatal(w) ==
    /\ wpc[w] = "dequeue"
    /\ wpc' = [wpc EXCEPT ![w] = "ended"]
    /\ wlog' = wlog \cup {[w |-> w, key |-> StoreError, ev |-> "store_error"]}
    /\ UNCHANGED <<redisVars, sqlVars, tgVars, pool, wjob, wctx, adminVars, groupVars,
                   schedVars, envVars, returned, consumed, registered, pushed, popped,
                   glog, lateVars>>

\* _worker_loop, lines 134 and 149-150: the store is unreachable and BLPOP
\* raises; the loop's handler logs the exception and the while loop goes
\* straight to its next iteration
worker_dequeue_raises(w) ==
    /\ wpc[w] = "dequeue"
    /\ wlog' = wlog \cup {[w |-> w, key |-> StoreError, ev |-> "store_error"]}
    /\ UNCHANGED <<redisVars, sqlVars, tgVars, workerVars, adminVars, groupVars,
                   schedVars, envVars, returned, consumed, registered, pushed, popped,
                   glog, lateVars>>

\* the queue and the pool, with a store that may be unreachable; the jobs are
\* those of one user
NextStore ==
    \/ \E u \in Users : u = 1 /\ handle_user_message(u)
    \/ \E u \in Users : u = 1 /\ push_resume(u)
    \/ start
    \/ stop
    \/ \E w \in Workers : QueueWorkerStep(w)
    \/ \E w \in Workers : worker_exception(w)
    \/ \E w \in Workers : worker_dequeue_raises(w)

SpecStore == Init /\ [][NextStore]_vars

\* C27: a loop whose dequeue_job raised logs the error, stays alive and waits
\* before it calls dequeue_job again
C27_FailedDequeueWaits ==
    [][\A w \in Workers :
          [w |-> w, key |-> StoreError, ev |-> "store_error"] \in wlog' \ wlog =>
              /\ wpc'[w] \notin {"off", "ended"}
              /\ wpc'[w] # "dequeue"]_vars

\* C25: a loop calls dequeue_job only when it holds no job; the job it is
\* given is the only one it holds until the handler has returned from its
\* last step or raised and been logged; only then does the loop poll again
C25_OneJobPerWorker ==
    /\ [](\A w \in Workers :
            /\ wpc[w] \in {"off", "dequeue"} => wjob[w] = NoJob
            /\ wpc[w] \in HandlerPcs => wjob[w] # NoJob)
    /\ [][\A w \in Workers :
            /\ wjob'[w] \notin {wjob[w], NoJob} =>
                  /\ wpc[w] = "dequeue" /\ wjob[w] = NoJob
                  /\ returned'[JobKey(wjob'[w])] = returned[JobKey(wjob'[w])] + 1
            /\ (wpc[w] \in HandlerPcs /\ wpc'[w] = "dequeue") =>
                  \/ wpc[w] \in {"send", "ar_send"}
                  \/ [w |-> w, key |-> JobKey(wjob[w]), ev |-> "exception"]
                        \in wlog' \ wlog]_vars

\* a loop whose first job raised and was logged is handling the second job,
\* and no other loop holds a job
C25_Witness ==
    \E w \in Workers :
        /\ [w |-> w, key |-> NewText(1), ev |-> "exception"] \in wlog
        /\ wpc[w] \in HandlerPcs
        /\ PushNo(JobKey(wjob[w])) = 2
        /\ \A v \in Workers \ {w} : wjob[v] = NoJob /\ wpc[v] = "dequeue"

Live == {w \in Loops : wpc[w] \notin {"off", "ended"}}

\* C24: while the pool runs, the loops alive are the num_workers loops that
\* start() created: none has ended, whatever jobs were dequeued, whichever
\* handlers raised and however often the store failed, and there is no other
C24_ExactlyNumWorkersLive ==
    /\ pool = "running" => (Live = Workers /\ Cardinality(Live) = NumWorkers)
    /\ pool = "new" => Live = {}
    /\ pool = "stopped" => Live = {}

\* every loop has met a failure, of the store or of a handler, one loop has
\* dropped a job of unknown type, and the pool still runs
C24_Witness ==
    /\ pool = "running"
    /\ \A w \in Workers : \E rec \in wlog : rec.w = w /\ rec.ev \in {"store_error", "exception"}
    /\ \E rec \in wlog : rec.ev = "exception"
    /\ \E rec \in wlog : rec.ev = "store_error"
    /\ \E rec \in wlog : rec.ev = "unknown"

\* ------------------------------------------------- one job per thread at a time
\* a job of the thread is waiting or with a handler
ThreadBusy(thread_id) ==
    \/ \E i \in 1..Len(queue) : json_loads(queue[i]).thread_id = thread_id
    \/ \E w \in Workers : wjob[w] # NoJob /\ wjob[w].thread_id = thread_id

\* handle_admin_reply for a reply to a pending question, by a producer that
\* holds the job back while the thread has one outstanding
SerialAdminStep(a) ==
    \/ \E m \in Handles : pending[m] # NoRow /\ admin_reply_get(a, m)
    \/ admin_reply_delete(a)
    \/ ~ThreadBusy(adata[a].thread_id) /\ admin_reply_enqueue(a)
    \/ admin_reply_resolve(a)

\* producers that push a job for a thread only once the thread's previous job
\* is seen to be done; the pool as it is, its handlers not failing
NextSerial ==
    \/ \E u \in Users : /\ ~ThreadBusy(get_or_create_thread_id(user_sessions, u))
                         /\ handle_user_message(u)
    \/ \E u \in Users : ~ThreadBusy(user_sessions[u]) /\ push_resume(u)
    \/ start
    \/ \E w \in Workers : AssocWorkerStep(w)
    \/ SerialAdminStep("a1")

SpecSerial == Init /\ [][NextSerial]_vars

\* C26: with such producers, two loops never run handlers on jobs of the same
\* thread at the same time
C26_OneHandlerPerThread ==
    \A v, w \in Workers :
        (v # w /\ wjob[v] # NoJob /\ wjob[w] # NoJob) =>
            wjob[v].thread_id # wjob[w].thread_id

\* two loops run handlers at the same time, on jobs of two threads, and a
\* thread has had its user message and then the admin's reply handled
C26_Witness ==
    /\ \E v, w \in Workers :
          /\ wpc[v] \in HandlerPcs /\ wpc[w] \in HandlerPcs
          /\ wjob[v].thread_id # wjob[w].thread_id
          /\ wjob[v].type = "admin_reply"
          /\ \E row \in messages : row.thread_id = wjob[v].thread_id

\* ------------------------------------------------------------ the sweep
\* the chats the running sweep has still to visit, the current one first
ToVisit == {sctx.chat_ids[i] : i \in DOMAIN sctx.chat_ids}

\* C28: a sweep leaves a chat only for the next chat of its list, and ends
\* only with the last one: when the classifier, the reply generation or the
\* send raises, the chats that follow are still popped and processed
C28_SweepVisitsEveryChat ==
    /\ [](/\ spc # "idle" => sctx.chat_ids # <<>>
          /\ \A i, j \in DOMAIN sctx.chat_ids : i # j => sctx.chat_ids[i] # sctx.chat_ids[j]
          /\ \A i \in DOMAIN sctx.chat_ids : i > 1 => popped[sctx.chat_ids[i]] = <<>>)
    /\ [][spc # "idle" =>
            /\ sctx'.chat_ids \in {sctx.chat_ids, Tail(sctx.chat_ids)}
            /\ spc' = "idle" <=> sctx'.chat_ids = <<>>
            /\ sctx'.chat_ids = Tail(sctx.chat_ids) =>
                  Len(popped'[Head(sctx.chat_ids)]) = 1]_vars

\* the classifier raised on the batch of one chat, and the sweep is sending a
\* reply in the next chat
C28_Witness ==
    /\ spc = "send"
    /\ \E c \in Chats \ ToVisit :
          /\ Len(popped[c]) = 1 /\ popped[c][1] # <<>>
          /\ glog.bug_ids[c] = <<>>

\* the group monitor with days passing: buffers and seen sets may expire
NextIdle ==
    \/ \E c \in Chats, m \in 1..MaxMsgId :
          m > nMsgs[c] /\ m <= Traffic(c) /\ collect_check("g1", c, m)
    \/ CollectFinish("g1")
    \/ ScanStep
    \/ DayPasses

SpecIdle == Init /\ [][NextIdle]_vars

\* C29: a tick that finds the buffer of a registered chat empty takes the
\* chat out of the registry, so that a chat nobody writes in is gone from it
\* after finitely many ticks
C29_EmptyBufferIsDeregistered ==
    [][\A c \in Chats :
          (PopCompletes(c) /\ popped'[c][Len(popped'[c])] = <<>>) =>
              str(c) \notin group_chats']_vars

ReplySent(c) == Len(glog'.replies[c]) > Len(glog.replies[c])

\* C30: a buffered message is returned in at most one batch, so no message is
\* classified or answered on two different ticks: the reply a tick sends is
\* never the reply an earlier tick already sent in answer to the same message
C30_NoMessageAnsweredTwice ==
    [][\A c \in Chats : ReplySent(c) => outbox' # outbox]_vars

\* the entries of a raw buffer list, parsed
Entries(list) == {json_loads(list[i]) : i \in DOMAIN list}

\* C31: when a push and a pop for one chat interleave, the pop takes out of
\* the buffer only messages of the batch it returns, and it leaves the chat
\* registered when the buffer holds a message that is not in that batch
C31_PopTouchesOnlyItsBatch ==
    [][\A c \in Chats :
          PopCompletes(c) =>
              LET batch == popped'[c][Len(popped'[c])]
                  Returned == {batch[i] : i \in DOMAIN batch}
              IN /\ Entries(group_buffer[c]) \ Returned \subseteq Entries(group_buffer'[c])
                 /\ (str(c) \in group_chats /\ str(c) \notin group_chats') =>
                        Entries(group_buffer'[c]) \subseteq Returned]_vars

\* C32: of two deliveries of one group message that are handled at the same
\* time, the seen check and the seen add let one into the buffer: while the
\* seen set has not expired the buffer holds the message at most once
C32_OneOfTwoDeliveriesAdmitted ==
    \A c \in Chats, m \in 1..MaxMsgId :
        <<c, m>> \notin glog.lapsed => Count(group_buffer[c], m) <= 1

\* C33: from the moment ask_human has sent escalation message h, a reply to h
\* finds the pending row unless the row has expired or another reply consumed
\* it: get_admin_pending comes back empty for a posted h only when the row
\* had been written before
C33_VisibleEscalationHasItsRow ==
    \A h \in 1..adminPosted :
        get_admin_pending(pending, h) = NoRow => registered[h] # NoRow

\* ---------------------------------------------- a failing enqueue_admin_reply
\* bot/admin.py lines 89-94: the RPUSH of enqueue_admin_reply raises; nothing
\* in handle_admin_reply catches it and the handler ends
admin_reply_enqueue_raises(a) ==
    /\ apc[a] = "enqueue"
    /\ apc' = [apc EXCEPT ![a] = "idle"]
    /\ amsg' = [amsg EXCEPT ![a] = NoAdminMsg]
    /\ adata' = [adata EXCEPT ![a] = NoRow]
    /\ UNCHANGED <<redisVars, sqlVars, tgVars, workerVars, groupVars, schedVars,
                   envVars, histVars, lateVars>>

\* the round trip of one user turn when the store may refuse the admin's job
NextRelay ==
    \/ NextRoundTrip
    \/ \E a \in AdminHandlers : admin_reply_enqueue_raises(a)

SpecRelay == Init /\ [][NextRelay]_vars

\* C34: handle_admin_reply takes a pending row away only together with the
\* enqueue of its admin_reply job: when the handler is past its enqueue step,
\* the job is the last of the queue, or the row is in the store again for a
\* later reply
C34_ConsumedOnlyWithItsJob ==
    [][\A a \in AdminHandlers :
          (apc[a] = "enqueue" /\ apc'[a] # "enqueue") =>
              \/ /\ Len(queue') = Len(queue) + 1
                 /\ json_loads(queue'[Len(queue')]) =
                        JobOf([h |-> amsg[a].reply_to, text |-> amsg[a].text,
                               row |-> adata[a]])
              \/ pending'[amsg[a].reply_to] = adata[a]]_vars

====
